---- MODULE Spec2Model ----
(***************************************************************************)
(* Model of the query orchestration pipeline of EDP_data_search:           *)
(* RAGOrchestrator.process_query and the services it drives (QueryParser,  *)
(* GeocodingService, PostGISService, DatasetRetrievalService,              *)
(* ResponseGenerator).  External systems (language model, Nominatim,       *)
(* PostgreSQL, the vector store) answer nondeterministically.              *)
(***************************************************************************)
EXTENDS Integers, Sequences, FiniteSets, TLC

VARIABLES
    pc,             \* position of the running call
    mode,           \* which call runs: "none", "pipeline" (process_query), "geocoder",
                    \* "retrieval", "synth", "bbox", "intent" (direct calls) or
                    \* "initialize"
    user_query,     \* process_query argument
    max_results,    \* process_query argument
    parsed_query,   \* QueryIntent returned by the parser
    location_query, \* get_bounding_box argument
    retry_attempts, \* get_bounding_box argument
    attempt,        \* loop index of get_bounding_box
    bounding_box,   \* value returned by get_bounding_box
    geo_outcomes,   \* outcome of every lookup of the current get_bounding_box call
    dataset_ids,    \* list returned by find_dataset_ids_by_bbox
    bbox_query,     \* parameters of the last ST_MakeEnvelope query
    search_call,    \* the last vector-store query issued
    search_results, \* list handed to generate_response
    synth_args,     \* arguments of the last generate_response call
    response,       \* value returned by process_query
    raised,         \* exception that escaped the running call to its caller
    failed,         \* stage whose exception reached process_query's handler
    trace,          \* collaborator calls of the current invocation, in order
    postgis_service,\* "none" | "unconnected" | "connected"
    initialized,    \* DatasetRetrievalService._initialized
    box_args,       \* arguments of a direct BoundingBox construction
    intent_args,    \* field values of a direct QueryIntent construction
    app,            \* the FastAPI application: startup phase and its errors
    requests        \* position of every /search request being served

vars == <<pc, mode, user_query, max_results, parsed_query, location_query,
          retry_attempts, attempt, bounding_box, geo_outcomes, dataset_ids,
          bbox_query, search_call, search_results, synth_args, response,
          raised, failed, trace, postgis_service, initialized, box_args,
          intent_args, app, requests>>

----------------------------------------------------------------------------
(* Bounds of the model *)

MaxQueryLen == 2        \* longest query / theme text, in characters
MaxLocations == 2       \* most locations in one extracted intent
MaxThemes == 1          \* most derived themes in one extracted intent
MaxResultsArg == 2      \* largest max_results tried
MaxRetryArg == 4        \* largest retry_attempts tried on a direct call
MaxScore == 3           \* similarity scores are 1..MaxScore
NumRequests == 2       \* /search requests in flight at once

(* Program constants *)
DefaultRetryAttempts == 3
THRESHOLD_MIN_SCORE == 2

Chars == {" ", "a"}
Places == {"Munich", "Atlantis"}
DatasetIds == {"ds-1", "ds-2", "ds-3"}
LLMTexts == {"text-1", "text-2"}

SeqsUpTo(S, n) == UNION {[1..k -> S] : k \in 0..n}

Strings == SeqsUpTo(Chars, MaxQueryLen)

None == [kind |-> "none"]

\* The /search requests the thread pool serves at the same time.
Requests == 1..NumRequests

----------------------------------------------------------------------------
(* Text helpers *)

RECURSIVE LStrip(_)
LStrip(s) == IF s # <<>> /\ Head(s) = " " THEN LStrip(Tail(s)) ELSE s

RECURSIVE RStrip(_)
RStrip(s) ==
    IF s # <<>> /\ s[Len(s)] = " " THEN RStrip(SubSeq(s, 1, Len(s) - 1)) ELSE s

Strip(s) == RStrip(LStrip(s))

RECURSIVE Join(_)
Join(terms) ==
    IF terms = <<>> THEN <<>>
    ELSE IF Len(terms) = 1 THEN terms[1]
    ELSE terms[1] \o <<" ">> \o Join(Tail(terms))

RECURSIVE Count(_, _)
Count(s, x) ==
    IF s = <<>> THEN 0
    ELSE (IF Head(s) = x THEN 1 ELSE 0) + Count(Tail(s), x)

RECURSIVE StripNonEmpty(_)
StripNonEmpty(terms) ==
    IF terms = <<>> THEN <<>>
    ELSE IF Strip(Head(terms)) # <<>>
         THEN <<Strip(Head(terms))>> \o StripNonEmpty(Tail(terms))
         ELSE StripNonEmpty(Tail(terms))

----------------------------------------------------------------------------
(* QueryIntent *)

validate_raw_theme_ok(v) == v # <<>> /\ Strip(v) # <<>>

QueryIntent(raw) ==
    [raw_theme |-> Strip(raw.raw_theme),
     locations |-> raw.locations,
     themes    |-> raw.themes]

has_location(intent) == Len(intent.locations) > 0

\* Variant: the terms are returned as stored, blank ones included.
core_search_terms_unfiltered(intent) == <<intent.raw_theme>> \o intent.themes

core_search_terms(intent) == StripNonEmpty(<<intent.raw_theme>> \o intent.themes)

LLMIntentOutputs ==
    [raw_theme : Strings,
     locations : SeqsUpTo(Places, MaxLocations),
     themes    : SeqsUpTo({<<" ">>, <<"a">>}, MaxThemes)]

----------------------------------------------------------------------------
(* Outcomes of the external systems *)

\* Language-model completion for intent extraction: transport error,
\* output the parser cannot read, or a parsed raw intent.
IntentCompletions ==
    {[kind |-> "error"], [kind |-> "malformed"]}
        \cup {[kind |-> "ok", raw |-> r] : r \in LLMIntentOutputs}

\* Raw provider bounding boxes, [f0, f1, f2, f3].
RawBoxes == {<<40, 45, 10, 15>>, <<45, 40, 10, 15>>, <<40, 45, 10, 185>>}

\* One Nominatim lookup: GeocoderTimedOut, GeocoderServiceError, any other
\* exception, no location, a location without 'boundingbox', or a match.
LookupOutcomes ==
    {[kind |-> "timeout"], [kind |-> "service_error"], [kind |-> "other_error"],
     [kind |-> "no_match"], [kind |-> "no_bbox"]}
        \cup {[kind |-> "match", raw |-> b] : b \in RawBoxes}

\* Variant: a lookup without a match is retried like a service error.
TransientOrNoMatch(o) == o.kind \in {"timeout", "service_error", "no_match", "no_bbox"}

\* The exceptions the except clause of get_bounding_box names.
Transient(o) == o.kind \in {"timeout", "service_error"}

Scores == 1..MaxScore
NoScore == 0

----------------------------------------------------------------------------
(* BoundingBox *)

\* Variant: a box with south = north is rejected too.
BoundingBoxValidStrict(north, south, east, west) ==
    /\ -90 <= north /\ north <= 90 /\ -90 <= south /\ south <= 90
    /\ -180 <= east /\ east <= 180 /\ -180 <= west /\ west <= 180
    /\ south < north

\* BoundingBox.__post_init__: the construction succeeds.
BoundingBoxValid(north, south, east, west) ==
    /\ -90 <= north /\ north <= 90 /\ -90 <= south /\ south <= 90
    /\ -180 <= east /\ east <= 180 /\ -180 <= west /\ west <= 180
    /\ ~(south > north)

\* Variant: the latitude and longitude fields are transposed.
BoxFromRawTransposed(bbox) ==
    [kind |-> "bbox", south |-> bbox[3], north |-> bbox[4],
     west |-> bbox[1], east |-> bbox[2]]

\* The keyword arguments get_bounding_box passes for a raw box.
BoxFromRaw(bbox) ==
    [kind |-> "bbox", south |-> bbox[1], north |-> bbox[2],
     west |-> bbox[3], east |-> bbox[4]]

\* Latitudes and longitudes tried on a direct construction.
Lats == {-91, -90, 40, 45, 90, 91}
Lons == {-181, -180, 10, 15, 180, 181}

\* A caller constructs BoundingBox(north, south, east, west).
BoundingBox ==
    /\ pc = "idle"
    /\ \E north \in Lats, south \in Lats, east \in Lons, west \in Lons :
          /\ box_args' = [north |-> north, south |-> south,
                          east |-> east, west |-> west]
          /\ IF BoundingBoxValid(north, south, east, west)
             THEN /\ bounding_box' = [kind |-> "bbox", south |-> south,
                                      north |-> north, west |-> west, east |-> east]
                  /\ raised' = "none"
             ELSE /\ bounding_box' = None
                  /\ raised' = "ValueError"
    /\ mode' = "bbox"
    /\ pc' = "done"
    /\ UNCHANGED <<user_query, max_results, parsed_query, location_query,
                   retry_attempts, attempt, geo_outcomes, dataset_ids,
                   bbox_query, search_call, search_results, synth_args,
                   response, failed, trace, postgis_service, initialized,
                   intent_args, app, requests>>

----------------------------------------------------------------------------
(* QueryIntent construction *)

\* Field values a caller (the output parser) may construct a QueryIntent from.
IntentFields ==
    [raw_theme : Strings,
     locations : SeqsUpTo(Places, MaxLocations),
     themes    : SeqsUpTo(Strings, MaxThemes)]

\* QueryIntent(raw_theme=..., locations=..., themes=...): the raw_theme
\* validator rejects the construction or stores the stripped value.
construct_QueryIntent ==
    /\ pc = "idle"
    /\ \E raw \in IntentFields :
          /\ intent_args' = raw
          /\ IF validate_raw_theme_ok(raw.raw_theme)
             THEN /\ parsed_query' = QueryIntent(raw)
                  /\ raised' = "none"
             ELSE /\ parsed_query' = None
                  /\ raised' = "ValidationError"
    /\ mode' = "intent"
    /\ pc' = "done"
    /\ UNCHANGED <<user_query, max_results, location_query, retry_attempts,
                   attempt, bounding_box, geo_outcomes, dataset_ids,
                   bbox_query, search_call, search_results, synth_args,
                   response, failed, trace, postgis_service, initialized,
                   box_args, app, requests>>

----------------------------------------------------------------------------
(* RAGOrchestrator.process_query: handler and fixed fallback *)

ErrorFallback == [answer |-> [kind |-> "apology"], source_datasets |-> <<>>]

\* Variant: the handler catches ValueError only.
CatchesValueErrorOnly(e) == e = "ValueError"

\* "except Exception" of process_query.
Catches(e) == TRUE

\* Variant: the handler logs the failure and lets the pipeline go on to
\* the answer synthesis.
HandleAndContinue(stage, e) ==
    /\ pc' = "synth"
    /\ failed' = stage
    /\ UNCHANGED <<response, raised>>

\* An exception of `stage` reaches the try block of process_query.
Handle(stage, e) ==
    /\ pc' = "done"
    /\ failed' = stage
    /\ IF Catches(e)
       THEN response' = ErrorFallback /\ raised' = "none"
       ELSE response' = None /\ raised' = e

Init ==
    /\ pc = "idle"
    /\ mode = "none"
    /\ user_query = <<>>
    /\ max_results = 1
    /\ parsed_query = None
    /\ location_query = "Munich"
    /\ retry_attempts = DefaultRetryAttempts
    /\ attempt = 0
    /\ bounding_box = None
    /\ geo_outcomes = <<>>
    /\ dataset_ids = <<>>
    /\ bbox_query = None
    /\ search_call = None
    /\ search_results = <<>>
    /\ synth_args = None
    /\ response = None
    /\ raised = "none"
    /\ failed = "none"
    /\ trace = <<>>
    /\ postgis_service = "none"
    /\ initialized = FALSE
    /\ box_args = None
    /\ intent_args = None
    /\ app = [phase |-> "created", init_error |-> "none", error |-> "none"]
    /\ requests = [r \in Requests |-> "idle"]

\* The values every call starts from.
ClearStages ==
    /\ box_args' = None
    /\ intent_args' = None
    /\ parsed_query' = None
    /\ attempt' = 0
    /\ bounding_box' = None
    /\ geo_outcomes' = <<>>
    /\ dataset_ids' = <<>>
    /\ bbox_query' = None
    /\ synth_args' = None
    /\ response' = None
    /\ failed' = "none"

ResetCall ==
    /\ ClearStages
    /\ search_call' = None
    /\ search_results' = <<>>
    /\ raised' = "none"
    /\ trace' = <<>>

\* The finished call hands its result to the caller; only the services'
\* state (connection, initialisation flag) outlives it.
return_to_caller ==
    /\ pc = "done"
    /\ pc' = "idle"
    /\ mode' = "none"
    /\ user_query' = <<>>
    /\ max_results' = 1
    /\ location_query' = "Munich"
    /\ retry_attempts' = DefaultRetryAttempts
    /\ ResetCall
    /\ UNCHANGED <<postgis_service, initialized, app, requests>>

\* The serving layer calls process_query(user_query, max_results).
process_query ==
    /\ pc = "idle"
    /\ \E q \in Strings, k \in 1..MaxResultsArg :
          /\ user_query' = q
          /\ max_results' = k
    /\ mode' = "pipeline"
    /\ pc' = "parse"
    /\ ResetCall
    /\ UNCHANGED <<location_query, retry_attempts, postgis_service, initialized,
                   app, requests>>

\* Variant: only the empty string is rejected.
QueryIsEmptyNoStrip(query) == query = <<>>

\* "if not query or not query.strip()" of QueryParser.parse.
QueryIsEmpty(query) == ~(query # <<>> /\ Strip(query) # <<>>)

\* QueryParser.parse, called at step 1 of process_query.
parse ==
    /\ pc = "parse"
    /\ IF QueryIsEmpty(user_query)
       THEN /\ trace' = trace \o <<"parse">>
            /\ Handle("parse", "ValueError")
            /\ UNCHANGED parsed_query
       ELSE \E c \in IntentCompletions :
            /\ trace' = trace \o <<"parse", "completion">>
            /\ IF c.kind = "ok" /\ validate_raw_theme_ok(c.raw.raw_theme)
               THEN /\ parsed_query' = QueryIntent(c.raw)
                    /\ pc' = "route"
                    /\ UNCHANGED <<response, raised, failed>>
               ELSE /\ Handle("parse", IF c.kind = "error" THEN "LLMError"
                                       ELSE "OutputParserException")
                    /\ UNCHANGED parsed_query
    /\ UNCHANGED <<app, requests, intent_args, box_args, mode, user_query, max_results, location_query, retry_attempts,
                   attempt, bounding_box, geo_outcomes, dataset_ids, bbox_query,
                   search_call, search_results, synth_args, postgis_service,
                   initialized>>

\* Variant: the last location of the intent is resolved.
last_location(intent) == intent.locations[Len(intent.locations)]

\* location = parsed_query.locations[0]
first_location(intent) == intent.locations[1]

\* Variant: every query is geocoded, with the first location or else the
\* default place.
route_always_geocode ==
    /\ pc = "route"
    /\ location_query' = IF has_location(parsed_query)
                         THEN first_location(parsed_query) ELSE "Munich"
    /\ retry_attempts' = DefaultRetryAttempts
    /\ trace' = trace \o <<"get_bounding_box">>
    /\ pc' = "geocode"
    /\ UNCHANGED <<app, requests, intent_args, box_args, mode, user_query, max_results, parsed_query, attempt,
                   bounding_box, geo_outcomes, dataset_ids, bbox_query,
                   search_call, search_results, synth_args, response, raised,
                   failed, postgis_service, initialized>>

\* Step 2 of process_query: the routing decision.
route ==
    /\ pc = "route"
    /\ IF has_location(parsed_query)
       THEN /\ location_query' = first_location(parsed_query)
            /\ retry_attempts' = DefaultRetryAttempts
            /\ trace' = trace \o <<"get_bounding_box">>
            /\ pc' = "geocode"
       ELSE /\ pc' = "search_all"
            /\ UNCHANGED <<location_query, retry_attempts, trace>>
    /\ UNCHANGED <<app, requests, intent_args, box_args, mode, user_query, max_results, parsed_query, attempt,
                   bounding_box, geo_outcomes, dataset_ids, bbox_query,
                   search_call, search_results, synth_args, response, raised,
                   failed, postgis_service, initialized>>

----------------------------------------------------------------------------
(* GeocodingService.get_bounding_box *)

\* get_bounding_box returns `value` to its caller.
GeoReturn(value) ==
    /\ bounding_box' = value
    /\ pc' = IF mode = "pipeline" THEN "geo_return" ELSE "done"
    /\ UNCHANGED <<response, raised, failed>>

\* get_bounding_box lets exception e escape.
GeoRaise(e) ==
    /\ UNCHANGED bounding_box
    /\ IF mode = "pipeline"
       THEN Handle("geocode", e)
       ELSE pc' = "done" /\ raised' = e /\ UNCHANGED <<response, failed>>

\* Variant: the first transient error ends the loop.
LastAttemptAlways(a, n) == TRUE

\* Whether the except clause ends the loop on this attempt.
LastAttempt(a, n) == a = n - 1

\* Variant: the loop runs for attempt = 0..retry_attempts.
InRangeInclusive(a, n) == a <= n

\* "attempt in range(retry_attempts)"
InRange(a, n) == a < n

\* One pass of "for attempt in range(retry_attempts)".
get_bounding_box_step ==
    /\ pc = "geocode"
    /\ IF ~InRange(attempt, retry_attempts)
       THEN /\ GeoReturn(None)
            /\ UNCHANGED <<attempt, geo_outcomes, trace>>
       ELSE \E o \in LookupOutcomes :
            /\ trace' = trace \o <<"geocode">>
            /\ geo_outcomes' = Append(geo_outcomes, o)
            /\ CASE Transient(o) ->
                      IF LastAttempt(attempt, retry_attempts)
                      THEN /\ GeoReturn(None)
                           /\ UNCHANGED attempt
                      ELSE /\ attempt' = attempt + 1
                           /\ UNCHANGED <<pc, bounding_box, response, raised, failed>>
                 [] o.kind = "match" ->
                      /\ IF BoundingBoxValid(BoxFromRaw(o.raw).north,
                                             BoxFromRaw(o.raw).south,
                                             BoxFromRaw(o.raw).east,
                                             BoxFromRaw(o.raw).west)
                         THEN GeoReturn(BoxFromRaw(o.raw))
                         ELSE GeoRaise("ValueError")
                      /\ UNCHANGED attempt
                 [] o.kind \in {"no_match", "no_bbox"} ->
                      /\ GeoReturn(None)
                      /\ UNCHANGED attempt
                 [] OTHER ->
                      /\ GeoRaise("GeopyError")
                      /\ UNCHANGED attempt
    /\ UNCHANGED <<app, requests, intent_args, box_args, mode, user_query, max_results, parsed_query, location_query,
                   retry_attempts, dataset_ids, bbox_query, search_call,
                   search_results, synth_args, postgis_service, initialized>>

\* A caller other than the orchestrator calls
\* get_bounding_box(location_query, retry_attempts).
get_bounding_box ==
    /\ pc = "idle"
    /\ \E l \in Places, n \in -1..MaxRetryArg :
          /\ location_query' = l
          /\ retry_attempts' = n
    /\ mode' = "geocoder"
    /\ pc' = "geocode"
    /\ ResetCall
    /\ UNCHANGED <<user_query, max_results, postgis_service, initialized,
                   app, requests>>

\* "if not bounding_box" of _process_location_based_query.
NoBoundingBox(box) == box = None

\* Variant: without a bounding box the query falls back to the unfiltered
\* semantic search.
location_branch_unfiltered ==
    /\ pc = "geo_return"
    /\ pc' = IF NoBoundingBox(bounding_box) THEN "search_all" ELSE "spatial"
    /\ UNCHANGED <<app, requests, intent_args, box_args, mode, user_query, max_results, parsed_query, location_query,
                   retry_attempts, attempt, bounding_box, geo_outcomes,
                   dataset_ids, bbox_query, search_call, search_results,
                   synth_args, response, raised, failed, trace,
                   postgis_service, initialized>>

\* The branch after get_bounding_box returned.
location_branch ==
    /\ pc = "geo_return"
    /\ IF NoBoundingBox(bounding_box)
       THEN /\ search_results' = <<>>
            /\ pc' = "synth"
       ELSE /\ pc' = "spatial"
            /\ UNCHANGED search_results
    /\ UNCHANGED <<app, requests, intent_args, box_args, mode, user_query, max_results, parsed_query, location_query,
                   retry_attempts, attempt, bounding_box, geo_outcomes,
                   dataset_ids, bbox_query, search_call, synth_args, response,
                   raised, failed, trace, postgis_service, initialized>>

----------------------------------------------------------------------------
(* PostGISService.find_dataset_ids_by_bbox *)

\* The argument tuple of ST_MakeEnvelope(%s, %s, %s, %s, 4326).
Envelope(bbox) ==
    [xmin |-> bbox.west, ymin |-> bbox.south, xmax |-> bbox.east, ymax |-> bbox.north]

\* Lists of distinct identifiers (dataset_id is the primary key).
IdLists ==
    {l \in SeqsUpTo(DatasetIds \ {"ds-3"}, 2) :
        \A i, j \in 1..Len(l) : i # j => l[i] # l[j]}

\* The database answers: cursor() fails, the query fails, or rows come back.
DbOutcomes ==
    {[kind |-> "cursor_error"], [kind |-> "query_error"]}
        \cup {[kind |-> "rows", ids |-> l] : l \in IdLists}

\* Value returned when the query inside the try block fails.
OnQueryError == <<>>

\* Variant: the empty identifier list is not singled out.
NoIntersectionsNever(ids) == FALSE

\* "if len(dataset_ids) == 0" of _process_location_based_query.
NoIntersections(ids) == Len(ids) = 0

\* Step c of the location-based state, with the "len(dataset_ids) == 0" branch.
find_dataset_ids_by_bbox ==
    /\ pc = "spatial"
    /\ trace' = trace \o <<"find_dataset_ids_by_bbox">>
    /\ IF postgis_service = "none"
       THEN /\ Handle("spatial", "AttributeError")
            /\ UNCHANGED <<dataset_ids, bbox_query, search_results>>
       ELSE IF postgis_service # "connected"
       THEN /\ Handle("spatial", "ValueError")
            /\ UNCHANGED <<dataset_ids, bbox_query, search_results>>
       ELSE \E o \in DbOutcomes :
            IF o.kind = "cursor_error"
            THEN /\ Handle("spatial", "DatabaseError")
                 /\ UNCHANGED <<dataset_ids, bbox_query, search_results>>
            ELSE /\ bbox_query' = Envelope(bounding_box)
                 /\ dataset_ids' = IF o.kind = "rows" THEN o.ids ELSE OnQueryError
                 /\ IF NoIntersections(dataset_ids')
                    THEN pc' = "synth" /\ search_results' = <<>>
                    ELSE pc' = "search_ids" /\ UNCHANGED search_results
                 /\ UNCHANGED <<response, raised, failed>>
    /\ UNCHANGED <<app, requests, intent_args, box_args, mode, user_query, max_results, parsed_query, location_query,
                   retry_attempts, attempt, bounding_box, geo_outcomes,
                   search_call, synth_args, postgis_service, initialized>>

----------------------------------------------------------------------------
(* DatasetRetrievalService *)

\* Parameters the two search methods accept by keyword.
SearchByIdsParams == {"query", "dataset_ids", "max_results", "include_scores"}
SearchAllParams == {"query", "max_results", "include_scores"}

\* Keywords the orchestrator passes.
OrchestratorByIdsKeywords == {"query", "dataset_ids", "max_results", "min_score"}
OrchestratorAllKeywords == {"query", "max_results", "min_score"}

\* Python binds a call only if every keyword names a parameter.
Binds(keywords, params) == keywords \subseteq params

\* Variant: every identifier becomes a "must" condition.
build_dataset_id_filter_all_must(ids) == [must |-> ids, should |-> <<>>]

\* _build_dataset_id_filter: one "must" condition for a single id, otherwise
\* one "should" condition per id.
build_dataset_id_filter(ids) ==
    IF Len(ids) = 1
    THEN [must |-> <<ids[1]>>, should |-> <<>>]
    ELSE [must |-> <<>>, should |-> ids]

NoFilter == [must |-> <<>>, should |-> <<>>]

\* Qdrant filter semantics on metadata.dataset_id: every "must" condition
\* matches and, when "should" is non-empty, at least one of them matches.
FilterMatches(f, id) ==
    /\ \A i \in 1..Len(f.must) : f.must[i] = id
    /\ Len(f.should) > 0 => \E i \in 1..Len(f.should) : f.should[i] = id

\* SearchResult.from_documents
SearchResult(id, score) ==
    [dataset_id |-> id, score |-> score, metadata |-> [dataset_id |-> id]]

\* Answers of the vector store to similarity_search[_with_score]: at most k
\* documents that pass the filter, ranked by descending score.
StoreAnswers(f, k) ==
    {r \in SeqsUpTo(DatasetIds \X Scores, k) :
        /\ \A i \in 1..Len(r) : FilterMatches(f, r[i][1])
        /\ \A i \in 1..(Len(r) - 1) : r[i][2] >= r[i + 1][2]}

\* The list comprehension that turns store documents into SearchResults.
ToResults(r, include_scores) ==
    [i \in 1..Len(r) |->
        SearchResult(r[i][1], IF include_scores THEN r[i][2] ELSE NoScore)]

\* Value returned when the store call inside the try block fails.
OnSearchError == <<>>

\* Variant: the vector store is initialised on every call.
NeedsInitializeAlways(flag) == TRUE

\* "if not self._initialized"
NeedsInitialize(flag) == ~flag

\* DatasetRetrievalService.initialize: whether vector_store_manager.initialize
\* was invoked, the flag afterwards and the exception that escapes.
RetrievalInitialize(store_ok) ==
    IF NeedsInitialize(initialized)
    THEN [store_init  |-> TRUE,
          initialized |-> IF store_ok THEN TRUE ELSE initialized,
          raised      |-> IF store_ok THEN "none" ELSE "StoreInitError"]
    ELSE [store_init |-> FALSE, initialized |-> initialized, raised |-> "none"]

\* Every way a search call can end.  by_ids selects search_by_dataset_ids.
SearchOutcomes(by_ids, keywords, query, ids, k, include_scores) ==
    LET f == IF by_ids THEN build_dataset_id_filter(ids) ELSE NoFilter
        call == [by_ids |-> by_ids, query |-> query, k |-> k, filter |-> f,
                 restrict |-> IF by_ids THEN ids ELSE <<>>]
        queried(init) ==
            {[raised |-> "none", initialized |-> init.initialized,
              store_init |-> init.store_init, call |-> call,
              results |-> ToResults(r, include_scores)] : r \in StoreAnswers(f, k)}
            \cup {[raised |-> "none", initialized |-> init.initialized,
                   store_init |-> init.store_init, call |-> call,
                   results |-> OnSearchError]}
        after(init) ==
            IF init.raised # "none"
            THEN {[raised |-> init.raised, initialized |-> init.initialized,
                   store_init |-> init.store_init, call |-> None,
                   results |-> <<>>]}
            ELSE queried(init)
    IN  IF ~Binds(keywords, IF by_ids THEN SearchByIdsParams ELSE SearchAllParams)
        THEN {[raised |-> "TypeError", initialized |-> initialized,
               store_init |-> FALSE, call |-> None, results |-> <<>>]}
        ELSE IF NeedsInitialize(initialized)
        THEN UNION {after(RetrievalInitialize(store_ok)) : store_ok \in BOOLEAN}
        ELSE after([store_init |-> FALSE, initialized |-> initialized,
                    raised |-> "none"])

\* The call of search method `name` and, when it got that far, the
\* similarity query it sent to the vector store.
CallTrace(name, o) ==
    <<name>> \o (IF o.store_init THEN <<"store_initialize">> ELSE <<>>)
             \o (IF o.call # None THEN <<"similarity_search">> ELSE <<>>)

\* Step d of the location-based state.
search_by_dataset_ids_step ==
    /\ pc = "search_ids"
    /\ \E o \in SearchOutcomes(TRUE, OrchestratorByIdsKeywords,
                               Join(core_search_terms(parsed_query)),
                               dataset_ids, max_results, FALSE) :
          /\ initialized' = o.initialized
          /\ search_call' = o.call
          /\ trace' = trace \o CallTrace("search_by_dataset_ids", o)
          /\ IF o.raised # "none"
             THEN /\ Handle("search", o.raised)
                  /\ UNCHANGED search_results
             ELSE /\ search_results' = o.results
                  /\ pc' = "synth"
                  /\ UNCHANGED <<response, raised, failed>>
    /\ UNCHANGED <<app, requests, intent_args, box_args, mode, user_query, max_results, parsed_query, location_query,
                   retry_attempts, attempt, bounding_box, geo_outcomes,
                   dataset_ids, bbox_query, synth_args, postgis_service>>

\* The semantic-only state.
search_all_embeddings_step ==
    /\ pc = "search_all"
    /\ \E o \in SearchOutcomes(FALSE, OrchestratorAllKeywords,
                               IF core_search_terms(parsed_query) # <<>>
                               THEN Join(core_search_terms(parsed_query))
                               ELSE user_query,
                               <<>>, max_results, FALSE) :
          /\ initialized' = o.initialized
          /\ search_call' = o.call
          /\ trace' = trace \o CallTrace("search_all_embeddings", o)
          /\ IF o.raised # "none"
             THEN /\ Handle("search", o.raised)
                  /\ UNCHANGED search_results
             ELSE /\ search_results' = o.results
                  /\ pc' = "synth"
                  /\ UNCHANGED <<response, raised, failed>>
    /\ UNCHANGED <<app, requests, intent_args, box_args, mode, user_query, max_results, parsed_query, location_query,
                   retry_attempts, attempt, bounding_box, geo_outcomes,
                   dataset_ids, bbox_query, synth_args, postgis_service>>

\* A caller other than the orchestrator uses the retrieval service with the
\* parameters it declares.
retrieval_search ==
    /\ pc = "idle"
    /\ ClearStages
    /\ \E by_ids \in BOOLEAN, q \in {<<"a">>}, ids \in SeqsUpTo(DatasetIds, 2),
          k \in 1..MaxResultsArg, include_scores \in BOOLEAN :
          /\ by_ids \/ ids = <<>>
          /\ \E o \in SearchOutcomes(by_ids,
                        IF by_ids THEN SearchByIdsParams ELSE SearchAllParams,
                        q, ids, k, include_scores) :
                /\ initialized' = o.initialized
                /\ search_call' = o.call
                /\ search_results' = o.results
                /\ raised' = o.raised
                /\ trace' = CallTrace(IF by_ids THEN "search_by_dataset_ids"
                                       ELSE "search_all_embeddings", o)
    /\ mode' = "retrieval"
    /\ pc' = "done"
    /\ UNCHANGED <<user_query, max_results, location_query, retry_attempts,
                   postgis_service, app, requests>>

----------------------------------------------------------------------------
(* ResponseGenerator.generate_response *)

\* Variant: the entries are emitted last result first.
format_datasets_for_response_reversed(results) ==
    [i \in 1..Len(results) |->
        [dataset_id      |-> results[Len(results) + 1 - i].dataset_id,
         relevance_score |-> results[Len(results) + 1 - i].score,
         metadata        |-> results[Len(results) + 1 - i].metadata]]

\* _format_datasets_for_response
format_datasets_for_response(results) ==
    [i \in 1..Len(results) |->
        [dataset_id      |-> results[i].dataset_id,
         relevance_score |-> results[i].score,
         metadata        |-> results[i].metadata]]

\* _format_datasets_for_prompt: the fixed text for no results, otherwise one
\* enumerated entry per result.
format_datasets_for_prompt(results) ==
    IF Len(results) = 0
    THEN [kind |-> "No datasets found"]
    ELSE [kind |-> "enumerated", entries |-> results]

\* Language-model completion for the answer: a text, or a failure.
AnswerCompletions ==
    {[kind |-> "error"]} \cup {[kind |-> "ok", text |-> t] : t \in LLMTexts}

\* Variant: the fallback answer comes without the source list.
GeneratedResponseNoSources(results, c) ==
    IF c.kind = "ok"
    THEN [answer |-> [kind |-> "llm", text |-> c.text],
          source_datasets |-> format_datasets_for_response(results)]
    ELSE [answer |-> [kind |-> "template", count |-> Len(results)],
          source_datasets |-> <<>>]

\* Value generate_response returns for completion outcome c.
GeneratedResponse(results, c) ==
    IF c.kind = "ok"
    THEN [answer |-> [kind |-> "llm", text |-> c.text],
          source_datasets |-> format_datasets_for_response(results)]
    ELSE [answer |-> [kind |-> "template", count |-> Len(results)],
          source_datasets |-> format_datasets_for_response(results)]

\* Variant: the orchestrator hands the synthesizer the joined search terms
\* in place of the user's query.
generate_response_search_text ==
    /\ pc = "synth"
    /\ synth_args' = [original_query |-> IF parsed_query # None
                                         THEN Join(core_search_terms(parsed_query))
                                         ELSE user_query,
                      search_results |-> search_results,
                      datasets_info  |-> format_datasets_for_prompt(search_results)]
    /\ trace' = trace \o <<"generate_response", "completion">>
    /\ \E c \in AnswerCompletions :
          response' = GeneratedResponse(search_results, c)
    /\ pc' = "done"
    /\ UNCHANGED <<app, requests, intent_args, box_args, mode, user_query, max_results, parsed_query, location_query,
                   retry_attempts, attempt, bounding_box, geo_outcomes,
                   dataset_ids, bbox_query, search_call, search_results,
                   raised, failed, postgis_service, initialized>>

\* generate_response(original_query, search_results) and the return of
\* process_query.
generate_response ==
    /\ pc = "synth"
    /\ synth_args' = [original_query |-> user_query,
                      search_results |-> search_results,
                      datasets_info  |-> format_datasets_for_prompt(search_results)]
    /\ trace' = trace \o <<"generate_response", "completion">>
    /\ \E c \in AnswerCompletions :
          response' = GeneratedResponse(search_results, c)
    /\ pc' = "done"
    /\ UNCHANGED <<app, requests, intent_args, box_args, mode, user_query, max_results, parsed_query, location_query,
                   retry_attempts, attempt, bounding_box, geo_outcomes,
                   dataset_ids, bbox_query, search_call, search_results,
                   raised, failed, postgis_service, initialized>>

\* Result lists a caller may hand to generate_response.
ResultLists ==
    SeqsUpTo({SearchResult(id, sc) : id \in DatasetIds, sc \in Scores \cup {NoScore}},
             MaxResultsArg)

\* A caller other than the orchestrator calls
\* generate_response(original_query, search_results).
synthesize ==
    /\ pc = "idle"
    /\ ClearStages
    /\ user_query' = <<"a">>
    /\ \E results \in ResultLists : search_results' = results
    /\ search_call' = None
    /\ raised' = "none"
    /\ trace' = <<>>
    /\ mode' = "synth"
    /\ pc' = "synth"
    /\ UNCHANGED <<max_results, location_query, retry_attempts,
                   postgis_service, initialized, app, requests>>

----------------------------------------------------------------------------
(* RAGOrchestrator.initialize *)

\* retrieval_service.initialize(), PostGISService(), connect(): the state
\* the services are left in and the exception that is logged and re-raised.
InitializeOutcome(store_ok, connect_ok) ==
    LET init == RetrievalInitialize(store_ok)
        ready == init.raised = "none"
    IN  [initialized     |-> init.initialized,
         store_init      |-> init.store_init,
         postgis_service |-> IF ~ready THEN postgis_service
                             ELSE IF connect_ok THEN "connected" ELSE "unconnected",
         raised          |-> IF ~ready THEN init.raised
                             ELSE IF ~connect_ok THEN "OperationalError" ELSE "none"]

initialize ==
    /\ pc = "idle"
    /\ ClearStages
    /\ search_call' = None
    /\ search_results' = <<>>
    /\ \E store_ok \in BOOLEAN, connect_ok \in BOOLEAN :
          LET o == InitializeOutcome(store_ok, connect_ok)
          IN  /\ initialized' = o.initialized
              /\ postgis_service' = o.postgis_service
              /\ raised' = o.raised
              /\ trace' = <<"initialize">> \o
                    (IF o.store_init THEN <<"store_initialize">> ELSE <<>>)
    /\ mode' = "initialize"
    /\ pc' = "done"
    /\ UNCHANGED <<user_query, max_results, location_query, retry_attempts,
                   app, requests>>

----------------------------------------------------------------------------
(* main.py: application startup and the /search endpoint *)

\* Everything a single call works on; the serving layer leaves it alone.
CallState == <<pc, mode, user_query, max_results, parsed_query, location_query,
               retry_attempts, attempt, bounding_box, geo_outcomes, dataset_ids,
               bbox_query, search_call, search_results, synth_args, response,
               raised, failed, trace, box_args, intent_args>>

\* lifespan: initialize() runs inside try; "except Exception" logs the error
\* and the generator ends without reaching its yield, which the context
\* manager reports as RuntimeError("generator didn't yield").
lifespan ==
    /\ app.phase = "created"
    /\ \E store_ok \in BOOLEAN, connect_ok \in BOOLEAN :
          LET o == InitializeOutcome(store_ok, connect_ok)
          IN  /\ initialized' = o.initialized
              /\ postgis_service' = o.postgis_service
              /\ app' = IF o.raised = "none"
                        THEN [phase |-> "serving", init_error |-> "none",
                              error |-> "none"]
                        ELSE [phase |-> "failed", init_error |-> o.raised,
                              error |-> "RuntimeError"]
    /\ UNCHANGED <<CallState, requests>>

\* POST /search: a plain "def" endpoint, so every request runs
\* rag_orchestrator.process_query on a worker thread of its own.
search_datasets(r) ==
    /\ app.phase = "serving"
    /\ requests[r] = "idle"
    /\ requests' = [requests EXCEPT ![r] = "parse"]
    /\ UNCHANGED <<CallState, app, postgis_service, initialized>>

\* The stages of process_query that do not touch the connection; their
\* values are those of the single-call actions above.
request_stage(r) ==
    /\ requests[r] \in {"parse", "route", "geocode", "search_ids",
                         "search_all", "synth"}
    /\ \E next \in
          CASE requests[r] = "parse"      -> {"route", "done"}
            [] requests[r] = "route"      -> {"geocode", "search_all"}
            [] requests[r] = "geocode"    -> {"spatial", "synth", "done"}
            [] requests[r] = "search_ids" ->
                  IF Binds(OrchestratorByIdsKeywords, SearchByIdsParams)
                  THEN {"synth", "done"} ELSE {"done"}
            [] requests[r] = "search_all" ->
                  IF Binds(OrchestratorAllKeywords, SearchAllParams)
                  THEN {"synth", "done"} ELSE {"done"}
            [] requests[r] = "synth"      -> {"done"} :
          requests' = [requests EXCEPT ![r] = next]
    /\ UNCHANGED <<CallState, app, postgis_service, initialized>>

\* find_dataset_ids_by_bbox: cur = self.connection.cursor()
connection_cursor(r) ==
    /\ requests[r] = "spatial"
    /\ \E ok \in BOOLEAN :
          requests' = [requests EXCEPT ![r] =
                          IF postgis_service = "connected" /\ ok
                          THEN "execute" ELSE "done"]
    /\ UNCHANGED <<CallState, app, postgis_service, initialized>>

\* find_dataset_ids_by_bbox: cur.execute(query, params) on the connection
cursor_execute(r) ==
    /\ requests[r] = "execute"
    /\ \E ok \in BOOLEAN :
          requests' = [requests EXCEPT ![r] = IF ok THEN "fetchall" ELSE "synth"]
    /\ UNCHANGED <<CallState, app, postgis_service, initialized>>

\* find_dataset_ids_by_bbox: cur.fetchall(), cur.close()
cursor_fetchall(r) ==
    /\ requests[r] = "fetchall"
    /\ \E ids \in IdLists :
          requests' = [requests EXCEPT ![r] =
                          IF NoIntersections(ids) THEN "synth" ELSE "search_ids"]
    /\ UNCHANGED <<CallState, app, postgis_service, initialized>>

\* The endpoint returns the QueryResponse; the worker thread is free again.
request_done(r) ==
    /\ requests[r] = "done"
    /\ requests' = [requests EXCEPT ![r] = "idle"]
    /\ UNCHANGED <<CallState, app, postgis_service, initialized>>

\* The requests with an operation in progress on self.connection.
OnConnection == {r \in Requests : requests[r] \in {"execute", "fetchall"}}

ServeNext ==
    \/ lifespan
    \/ \E r \in Requests : search_datasets(r)
    \/ \E r \in Requests : request_stage(r)
    \/ \E r \in Requests : connection_cursor(r)
    \/ \E r \in Requests : cursor_execute(r)
    \/ \E r \in Requests : cursor_fetchall(r)
    \/ \E r \in Requests : request_done(r)

ServeSpec == Init /\ [][ServeNext]_vars

----------------------------------------------------------------------------

Next ==
    \/ process_query
    \/ parse
    \/ route
    \/ get_bounding_box_step
    \/ get_bounding_box
    \/ location_branch
    \/ find_dataset_ids_by_bbox
    \/ search_by_dataset_ids_step
    \/ search_all_embeddings_step
    \/ retrieval_search
    \/ generate_response
    \/ initialize
    \/ synthesize
    \/ BoundingBox
    \/ construct_QueryIntent
    \/ return_to_caller

Spec == Init /\ [][Next]_vars

\* A running get_bounding_box call is not suspended for ever: the loop is
\* synchronous code and every lookup returns or raises (timeout = 3).
FairSpec == Spec /\ WF_vars(get_bounding_box_step)

----------------------------------------------------------------------------
(* Properties *)

InTrace(x) == Count(trace, x) > 0

IsList(l) == DOMAIN l = 1..Len(l)

Pipeline == mode = "pipeline"

\* The intent was extracted and names no location / at least one location.
IntentWithoutLocation == parsed_query # None /\ Len(parsed_query.locations) = 0
IntentWithLocation == parsed_query # None /\ Len(parsed_query.locations) > 0

\* No call of either search method of the retrieval service was made.
NoVectorCall ==
    /\ ~InTrace("search_by_dataset_ids")
    /\ ~InTrace("search_all_embeddings")
    /\ ~InTrace("similarity_search")
    /\ search_call = None

\* No call of the spatial filter was made.
NoSpatialCall == ~InTrace("find_dataset_ids_by_bbox") /\ bbox_query = None

\* No call of the geocoder was made.
NoGeocodingCall == ~InTrace("get_bounding_box") /\ ~InTrace("geocode")

\* C1: process_query never raises to its caller, whichever collaborator
\* fails; what it returns is a mapping with an 'answer' and a
\* 'source_datasets' list.
C1_NeverRaises ==
    Pipeline =>
        /\ raised = "none"
        /\ pc = "done" =>
              /\ DOMAIN response = {"answer", "source_datasets"}
              /\ response.answer.kind \in {"apology", "llm", "template"}
              /\ IsList(response.source_datasets)

C1_Witness ==
    /\ Pipeline /\ pc = "done"
    /\ failed = "spatial"
    /\ response = ErrorFallback

\* C2: when the parser raises, process_query returns the fixed fallback
\* (apology, no sources); the parser ran once, at most one completion was
\* requested, and no geocoding, spatial, retrieval or synthesis call was made.
C2_ExtractionFailure ==
    (Pipeline /\ pc = "done" /\ failed = "parse") =>
        /\ response = [answer |-> [kind |-> "apology"], source_datasets |-> <<>>]
        /\ Count(trace, "parse") = 1
        /\ Count(trace, "completion") <= 1
        /\ NoGeocodingCall /\ NoSpatialCall /\ NoVectorCall
        /\ ~InTrace("generate_response")

C2_Witness ==
    /\ Pipeline /\ pc = "done" /\ failed = "parse"
    /\ trace = <<"parse", "completion">>

\* C3: a query whose intent has no location never reaches the geocoder or
\* the spatial filter.
C3_NoLocationNoGeo ==
    (Pipeline /\ IntentWithoutLocation) => NoGeocodingCall /\ NoSpatialCall

C3_Witness ==
    /\ Pipeline /\ pc = "done" /\ IntentWithoutLocation
    /\ InTrace("search_all_embeddings")

\* get_bounding_box returned none to the location-based state.
ResolvedNone ==
    /\ Pipeline /\ IntentWithLocation
    /\ pc \in {"geo_return", "synth", "done"}
    /\ failed # "geocode"
    /\ bounding_box = None

\* C4: with a location that resolves to no bounding box, the response has no
\* source datasets and neither the spatial filter nor any (restricted or
\* unfiltered) vector search is called.
C4_NoBoxNoSearch ==
    ResolvedNone =>
        /\ NoSpatialCall
        /\ NoVectorCall
        /\ pc = "done" => response.source_datasets = <<>>

C4_Witness ==
    /\ ResolvedNone /\ pc = "done"
    /\ Len(geo_outcomes) = 1 /\ geo_outcomes[1].kind = "no_match"
    /\ InTrace("generate_response")

\* The spatial filter was queried with a resolved box and returned nothing.
SpatialEmpty ==
    /\ Pipeline
    /\ pc \in {"synth", "done"}
    /\ bounding_box # None
    /\ bbox_query # None
    /\ dataset_ids = <<>>

\* C5: with a bounding box and an empty identifier list the answer is
\* synthesized over the empty result set and no vector search is called.
C5_EmptySpatialNoSearch ==
    SpatialEmpty =>
        /\ NoVectorCall
        /\ pc = "done" =>
              /\ failed = "none"
              /\ synth_args # None
              /\ synth_args.search_results = <<>>
              /\ response.source_datasets = <<>>

C5_Witness ==
    /\ SpatialEmpty /\ pc = "done"
    /\ InTrace("find_dataset_ids_by_bbox")
    /\ InTrace("generate_response")

\* C6: an empty or whitespace-only query is rejected by the parser before
\* any completion, geocoding, spatial or vector call.
C6_EmptyQueryRejected ==
    (Pipeline /\ Strip(user_query) = <<>>) =>
        /\ trace \in {<<>>, <<"parse">>}
        /\ pc \in {"parse", "done"}
        /\ pc = "done" => failed = "parse" /\ response = ErrorFallback

C6_Witness ==
    /\ Pipeline /\ pc = "done"
    /\ user_query # <<>> /\ Strip(user_query) = <<>>
    /\ trace = <<"parse">>

\* The spatial filter returned a non-empty identifier list S.
LocationWithIds ==
    /\ Pipeline /\ pc = "done" /\ IntentWithLocation
    /\ bounding_box # None
    /\ bbox_query # None
    /\ dataset_ids # <<>>

\* C7: with a bounding box and a non-empty identifier list S the pipeline
\* runs one search restricted to S (text = core_search_terms joined with
\* spaces, k = max_results, threshold applied) and the response's
\* source_datasets are exactly its results, all with ids in S.
C7_RestrictedSearch ==
    LocationWithIds =>
        /\ search_call # None
        /\ search_call.by_ids
        /\ search_call.restrict = dataset_ids
        /\ search_call.query = Join(core_search_terms(parsed_query))
        /\ search_call.k = max_results
        /\ synth_args # None
        /\ synth_args.search_results = search_results
        /\ response.source_datasets = format_datasets_for_response(search_results)
        /\ \A i \in 1..Len(search_results) :
              /\ \E j \in 1..Len(dataset_ids) :
                    search_results[i].dataset_id = dataset_ids[j]
              /\ search_results[i].score # NoScore =>
                    search_results[i].score >= THRESHOLD_MIN_SCORE

\* C8: in the semantic-only state the pipeline runs one unrestricted search
\* (text = joined core_search_terms, or the raw query if there are none) and
\* the response's sources are that search's results above the threshold.
C8_UnrestrictedSearch ==
    (Pipeline /\ pc = "done" /\ IntentWithoutLocation) =>
        /\ search_call # None
        /\ ~search_call.by_ids
        /\ search_call.filter = NoFilter
        /\ search_call.query =
              (IF core_search_terms(parsed_query) # <<>>
               THEN Join(core_search_terms(parsed_query)) ELSE user_query)
        /\ search_call.k = max_results
        /\ Count(trace, "similarity_search") = 1
        /\ synth_args # None
        /\ synth_args.search_results = search_results
        /\ response.source_datasets = format_datasets_for_response(search_results)
        /\ \A i \in 1..Len(search_results) :
              search_results[i].score # NoScore =>
                  search_results[i].score >= THRESHOLD_MIN_SCORE

\* A search method of the retrieval service returned a list.
SearchReturned ==
    /\ pc \in {"synth", "done"}
    /\ InTrace("search_by_dataset_ids") \/ InTrace("search_all_embeddings")
    /\ raised = "none" /\ failed # "search"

\* C9: no SearchResult returned by a search, restricted or not, has a
\* score below the minimum score, and the results come in non-increasing
\* order of score.
C9_ScoresAboveMin ==
    SearchReturned =>
        /\ \A i \in 1..Len(search_results) :
              search_results[i].score # NoScore =>
                  search_results[i].score >= THRESHOLD_MIN_SCORE
        /\ \A i \in 1..(Len(search_results) - 1) :
              search_results[i].score >= search_results[i + 1].score

\* get_bounding_box was called in the current invocation.
GeoCalled == mode = "geocoder" \/ (Pipeline /\ InTrace("get_bounding_box"))

C10_State ==
    (GeoCalled /\ retry_attempts >= 1) =>
        LET n == Len(geo_outcomes) IN
        /\ n <= retry_attempts
        /\ \A i \in 1..(n - 1) : geo_outcomes[i].kind \in {"timeout", "service_error"}
        /\ pc = "geocode" =>
              /\ attempt = n
              /\ n < retry_attempts
              /\ n > 0 => geo_outcomes[n].kind \in {"timeout", "service_error"}
        /\ pc # "geocode" =>
              /\ n >= 1
              /\ geo_outcomes[n].kind \in {"timeout", "service_error"} =>
                    /\ n = retry_attempts
                    /\ bounding_box = None
                    /\ raised = "none" /\ failed # "geocode"
                    /\ (Pipeline /\ pc = "done") => response.source_datasets = <<>>
              /\ geo_outcomes[n].kind \in {"no_match", "no_bbox"} =>
                    /\ bounding_box = None
                    /\ raised = "none" /\ failed # "geocode"
              /\ geo_outcomes[n].kind = "match" =>
                    \/ bounding_box = [kind  |-> "bbox",
                                       south |-> geo_outcomes[n].raw[1],
                                       north |-> geo_outcomes[n].raw[2],
                                       west  |-> geo_outcomes[n].raw[3],
                                       east  |-> geo_outcomes[n].raw[4]]
                    \/ bounding_box = None /\ (raised = "ValueError" \/ failed = "geocode")

\* While get_bounding_box runs, its next step issues one more lookup.
C10_Step ==
    (pc = "geocode" /\ retry_attempts >= 1) =>
        /\ Len(geo_outcomes') = Len(geo_outcomes) + 1
        /\ Count(trace', "geocode") = Count(trace, "geocode") + 1

\* C10: with retry_attempts = N >= 1 a transient failure is followed by
\* another lookup until N lookups were issued; N transient failures give
\* none (and an empty source list in the pipeline); a match or a no-match on
\* any attempt ends the loop with that attempt's outcome.
C10_RetryTransient == []C10_State /\ [][C10_Step]_vars

C10_Witness ==
    /\ Pipeline /\ pc = "done"
    /\ retry_attempts = DefaultRetryAttempts
    /\ Len(geo_outcomes) = DefaultRetryAttempts
    /\ \A i \in 1..Len(geo_outcomes) : geo_outcomes[i].kind \in {"timeout", "service_error"}
    /\ bounding_box = None
    /\ response.source_datasets = <<>>
    /\ InTrace("generate_response")

\* The lookup ended without a usable location.
IsNoMatch(o) == o.kind \in {"no_match", "no_bbox"}

C11_State ==
    GeoCalled =>
        \A i \in 1..Len(geo_outcomes) :
            IsNoMatch(geo_outcomes[i]) =>
                /\ i = Len(geo_outcomes)
                /\ pc # "geocode"
                /\ bounding_box = None
                /\ raised = "none" /\ failed # "geocode"

\* After a no-match no step of the same call issues a lookup.
C11_Step ==
    (/\ GeoCalled /\ mode' = mode
     /\ geo_outcomes # <<>>
     /\ IsNoMatch(geo_outcomes[Len(geo_outcomes)])) =>
        /\ geo_outcomes' = geo_outcomes
        /\ Count(trace', "geocode") = Count(trace, "geocode")

\* C11: a lookup that finds no location, or a location without a bounding
\* box, makes get_bounding_box return none at once; no further lookup is
\* issued however many attempts remain.
C11_NoMatchImmediate == []C11_State /\ [][C11_Step]_vars

C11_Witness ==
    /\ Pipeline /\ pc = "done"
    /\ Len(geo_outcomes) = 2 /\ Len(geo_outcomes) < retry_attempts
    /\ geo_outcomes[1].kind = "timeout"
    /\ geo_outcomes[2].kind = "no_bbox"
    /\ bounding_box = None

\* get_bounding_box ended after lookups that matched, found nothing or
\* failed transiently.
ResolveEnded ==
    /\ GeoCalled /\ pc # "geocode"
    /\ \A i \in 1..Len(geo_outcomes) :
          geo_outcomes[i].kind \in
              {"timeout", "service_error", "no_match", "no_bbox", "match"}

\* C12: for a match with any raw box values, a no-match or any run of
\* transient errors, get_bounding_box returns a BoundingBox or none; a failed
\* resolution leads the pipeline to the synthesized empty-result answer, not
\* to the error fallback.
C12_ResolveTotal ==
    ResolveEnded =>
        /\ raised = "none"
        /\ failed # "geocode"
        /\ bounding_box = None \/ bounding_box.kind = "bbox"
        /\ (Pipeline /\ pc = "done" /\ bounding_box = None) =>
              /\ InTrace("generate_response")
              /\ response.answer.kind \in {"llm", "template"}
              /\ response.source_datasets = <<>>

\* C13: constructing a BoundingBox fails with a validation error exactly
\* when north or south is outside [-90, 90], east or west is outside
\* [-180, 180], or south > north; otherwise the four fields are stored as
\* given (south = north included).
C13_BoxValidation ==
    (mode = "bbox" /\ pc = "done") =>
        LET a == box_args
            bad == \/ a.north < -90 \/ a.north > 90
                   \/ a.south < -90 \/ a.south > 90
                   \/ a.east < -180 \/ a.east > 180
                   \/ a.west < -180 \/ a.west > 180
                   \/ a.south > a.north
        IN  /\ bad <=> (raised = "ValueError" /\ bounding_box = None)
            /\ ~bad <=> /\ raised = "none"
                        /\ bounding_box = [kind |-> "bbox", south |-> a.south,
                                           north |-> a.north, west |-> a.west,
                                           east |-> a.east]

C13_Witness ==
    /\ mode = "bbox" /\ pc = "done"
    /\ box_args = [north |-> 45, south |-> 45, east |-> 15, west |-> 10]
    /\ raised = "none"
    /\ bounding_box.north = 45 /\ bounding_box.south = 45

\* C14: the raw fields [f0, f1, f2, f3] become south, north, west, east in
\* that order, and the rectangle queried by the spatial filter is
\* (xmin = west, ymin = south, xmax = east, ymax = north) of that same box.
C14_FieldOrder ==
    (GeoCalled /\ bounding_box # None) =>
        LET raw == geo_outcomes[Len(geo_outcomes)].raw IN
        /\ bounding_box.south = raw[1] /\ bounding_box.north = raw[2]
        /\ bounding_box.west = raw[3] /\ bounding_box.east = raw[4]
        /\ bbox_query # None =>
              bbox_query = [xmin |-> raw[3], ymin |-> raw[1],
                            xmax |-> raw[4], ymax |-> raw[2]]

C14_Witness ==
    /\ Pipeline /\ pc = "done"
    /\ bounding_box # None
    /\ geo_outcomes[Len(geo_outcomes)].raw = <<40, 45, 10, 15>>
    /\ bbox_query = [xmin |-> 10, ymin |-> 40, xmax |-> 15, ymax |-> 45]

\* C15: find_dataset_ids_by_bbox never fails its caller: without a
\* connection, or when no cursor can be obtained, or when the query fails,
\* it returns an empty collection.
C15_SpatialNeverFails ==
    (Pipeline /\ postgis_service # "none" /\ InTrace("find_dataset_ids_by_bbox")) =>
        failed # "spatial"

\* C16: both search methods return an empty sequence on any vector-store
\* error, an error of the lazy initialisation included.
C16_SearchNeverRaises ==
    (mode = "retrieval" /\ pc = "done") => raised = "none"

\* generate_response returned.
Synthesized == pc = "done" /\ synth_args # None /\ InTrace("generate_response")

\* C17: when the completion fails, generate_response returns the templated
\* answer with the number of results and the same source_datasets (entries,
\* order, length) as when the completion succeeds.
C17_SynthesisFallback ==
    Synthesized =>
        LET r == synth_args.search_results IN
        /\ raised = "none"
        /\ response.answer.kind \in {"llm", "template"}
        /\ response.answer.kind = "template" => response.answer.count = Len(r)
        /\ Len(response.source_datasets) = Len(r)
        /\ \A i \in 1..Len(r) :
              response.source_datasets[i] =
                  [dataset_id |-> r[i].dataset_id,
                   relevance_score |-> r[i].score,
                   metadata |-> r[i].metadata]

C17_Witness ==
    /\ Synthesized
    /\ response.answer = [kind |-> "template", count |-> 2]
    /\ Len(response.source_datasets) = 2
    /\ response.source_datasets[1].dataset_id # response.source_datasets[2].dataset_id

\* C18: for an empty result list the synthesizer gives a "no datasets
\* found" answer without requesting a completion from the language model.
C18_EmptyNoCompletion ==
    (Synthesized /\ synth_args.search_results = <<>>) =>
        trace[Len(trace)] # "completion"

\* A search restricted to a non-empty identifier list returned.
RestrictedSearchReturned ==
    /\ mode = "retrieval" /\ pc = "done" /\ raised = "none"
    /\ search_call # None
    /\ search_call.by_ids
    /\ Len(search_call.restrict) >= 1

\* C19: the restriction built for one identifier matches exactly that
\* identifier; built for several it matches an entry iff its dataset_id is
\* one of them; no result of a restricted search lies outside the set.
C19_FilterAnyOf ==
    RestrictedSearchReturned =>
        LET ids == search_call.restrict
            f == search_call.filter
            given == {ids[j] : j \in 1..Len(ids)}
        IN  /\ Len(ids) = 1 => f = [must |-> <<ids[1]>>, should |-> <<>>]
            /\ \A id \in DatasetIds : FilterMatches(f, id) <=> id \in given
            /\ \A i \in 1..Len(search_results) :
                  search_results[i].dataset_id \in given

C19_Witness ==
    /\ RestrictedSearchReturned
    /\ search_call.restrict = <<"ds-1", "ds-2">>
    /\ Len(search_results) = 2
    /\ search_results[1].dataset_id = "ds-2"
    /\ search_results[2].dataset_id = "ds-1"

\* The spatial filter was called on a connected service and left the
\* pipeline without identifiers.
SpatialGaveNothing ==
    /\ Pipeline /\ pc = "done" /\ parsed_query # None
    /\ postgis_service = "connected"
    /\ InTrace("find_dataset_ids_by_bbox")
    /\ dataset_ids = <<>>

\* C20: a failure of the spatial or vector backend after a successful
\* extraction is downgraded to an empty result collection, and process_query
\* returns the synthesizer's answer over it, not the fixed error fallback.
C20_BackendFailureDowngraded ==
    SpatialGaveNothing =>
        /\ failed = "none"
        /\ InTrace("generate_response")
        /\ synth_args # None
        /\ synth_args.search_results = <<>>
        /\ response.answer.kind # "apology"

----------------------------------------------------------------------------
(* C21: concurrent process_query invocations on the one process-wide
   orchestrator never have operations in progress on the shared PostGIS
   connection at the same time: at most one request is between cursor()
   and close() at any moment. *)
C21_ConnectionExclusive == Cardinality(OnConnection) <= 1

\* C22: two invocations that agree on the query, max_results and every
\* collaborator answer up to the synthesis hold the same search_results when
\* generate_response starts; whatever the language model then answers (a
\* text, another text, or a failure), the source_datasets returned are the
\* same.
C22_SourcesIndependentOfAnswer ==
    [][(pc = "synth" /\ pc' = "done") =>
          \A c \in AnswerCompletions :
              GeneratedResponse(search_results, c).source_datasets
                  = response'.source_datasets]_vars

C22_Witness ==
    /\ Pipeline
    /\ Synthesized
    /\ IntentWithLocation
    /\ response.answer.kind = "template"
    /\ response.source_datasets = <<>>

\* C23: a failure to initialise the vector store or the spatial connection
\* escapes RAGOrchestrator.initialize and escapes application startup as the
\* error it is, and the application never serves queries with a collaborator
\* uninitialised.
C23_StartupErrorEscapes ==
    /\ app.phase = "serving" => (initialized /\ postgis_service = "connected")
    /\ (\E r \in Requests : requests[r] # "idle") => app.phase = "serving"
    /\ app.phase = "failed" =>
          (app.init_error # "none" /\ app.error = app.init_error)

\* Text with at least one character that is not white space.
NonBlank(t) == \E i \in 1..Len(t) : t[i] # " "

\* Text without leading or trailing white space.
Trimmed(t) == t = <<>> \/ (t[1] # " " /\ t[Len(t)] # " ")

\* C24: constructing a QueryIntent fails exactly when raw_theme is empty or
\* white space; a constructed intent has a non-empty trimmed raw_theme,
\* has_location true exactly when locations is non-empty, and
\* core_search_terms equal to raw_theme followed by the themes, each
\* trimmed, the blank ones removed, in order; the list is never empty and
\* starts with raw_theme.
C24_IntentWellFormed ==
    /\ (mode = "intent" /\ pc = "done") =>
          /\ (raised = "none") <=> NonBlank(intent_args.raw_theme)
          /\ (raised = "none") <=> (parsed_query # None)
          /\ parsed_query # None =>
                LET kept == SelectSeq(<<intent_args.raw_theme>> \o intent_args.themes,
                                      NonBlank)
                IN  /\ parsed_query.raw_theme = Strip(intent_args.raw_theme)
                    /\ parsed_query.locations = intent_args.locations
                    /\ core_search_terms(parsed_query) =
                          [i \in 1..Len(kept) |-> Strip(kept[i])]
    /\ parsed_query # None =>
          LET terms == core_search_terms(parsed_query)
          IN  /\ NonBlank(parsed_query.raw_theme)
              /\ Trimmed(parsed_query.raw_theme)
              /\ has_location(parsed_query) <=> (parsed_query.locations # <<>>)
              /\ terms # <<>>
              /\ terms[1] = parsed_query.raw_theme
              /\ \A i \in 1..Len(terms) : NonBlank(terms[i]) /\ Trimmed(terms[i])

C24_Witness ==
    /\ mode = "intent"
    /\ pc = "done"
    /\ intent_args # None
    /\ intent_args.raw_theme = <<" ", "a">>
    /\ intent_args.themes = << <<"a", " ">> >>
    /\ Len(intent_args.locations) = 2
    /\ core_search_terms(parsed_query) = << <<"a">>, <<"a">> >>

\* The collaborator calls of one invocation in pipeline order; entry k names
\* the calls allowed at position k.
StageOrder ==
    << {"parse"}, {"completion"}, {"get_bounding_box"}, {"geocode"},
       {"find_dataset_ids_by_bbox"},
       {"search_by_dataset_ids", "search_all_embeddings"},
       {"similarity_search"}, {"generate_response"}, {"completion"} >>

\* tr runs through StageOrder from position k on, never backwards; only a
\* geocoder lookup may repeat.
RECURSIVE InStageOrder(_, _)
InStageOrder(tr, k) ==
    \/ tr = <<>>
    \/ \E j \in k..Len(StageOrder) :
          /\ Head(tr) \in StageOrder[j]
          /\ InStageOrder(Tail(tr), IF Head(tr) = "geocode" THEN j ELSE j + 1)

LocationStages == {"get_bounding_box", "geocode", "find_dataset_ids_by_bbox",
                   "search_by_dataset_ids"}

\* C25: one invocation routes once and enters exactly one of the two
\* states; its stages run in the order extract intent, (resolve location,
\* spatial filter,) semantic search, synthesize; the geocoder call, the
\* spatial filter, the vector search and the synthesizer are each called at
\* most once; no stage of the branch not taken is called, and none before
\* the intent was extracted.
C25_StagesInOrder ==
    Pipeline =>
        /\ InStageOrder(trace, 1)
        /\ \A x \in {"parse", "get_bounding_box", "find_dataset_ids_by_bbox",
                     "search_by_dataset_ids", "search_all_embeddings",
                     "similarity_search", "generate_response"} :
              Count(trace, x) <= 1
        /\ (\E x \in LocationStages : InTrace(x)) =>
              (IntentWithLocation /\ ~InTrace("search_all_embeddings"))
        /\ InTrace("search_all_embeddings") => IntentWithoutLocation
        /\ InTrace("generate_response") => parsed_query # None
        /\ pc \in {"geocode", "geo_return", "spatial", "search_ids"} => IntentWithLocation
        /\ pc = "search_all" => IntentWithoutLocation

C25_Witness ==
    /\ Pipeline
    /\ pc = "done"
    /\ trace = <<"parse", "completion", "get_bounding_box", "geocode", "geocode",
                 "find_dataset_ids_by_bbox", "generate_response", "completion">>

\* A pipeline invocation ended with the intent extracted and no exception
\* from any stage.
CompletedCleanly ==
    Pipeline /\ pc = "done" /\ parsed_query # None /\ failed = "none"

\* C26: in either state, when the intent was extracted and no stage raised,
\* generate_response is called exactly once, with the user's original query
\* (not the derived search text) and the list of results the state ended
\* with, and process_query returns what generate_response returned.
C26_SynthesizedOnce ==
    CompletedCleanly =>
        /\ Count(trace, "generate_response") = 1
        /\ synth_args # None
        /\ synth_args.original_query = user_query
        /\ synth_args.search_results = search_results
        /\ raised = "none"
        /\ \E c \in AnswerCompletions :
              response = GeneratedResponse(synth_args.search_results, c)

C26_Witness ==
    /\ CompletedCleanly
    /\ IntentWithLocation
    /\ user_query = <<"a", "a">>
    /\ parsed_query.raw_theme = <<"a">>
    /\ synth_args.original_query = <<"a", "a">>
    /\ response.answer.kind = "llm"

\* C27: of several extracted locations only the first is resolved:
\* get_bounding_box is called once per invocation, with locations[0]; the
\* other locations reach neither the geocoder nor any later stage.
C27_FirstLocationOnly ==
    (Pipeline /\ InTrace("get_bounding_box")) =>
        /\ IntentWithLocation
        /\ Count(trace, "get_bounding_box") = 1
        /\ location_query = Head(parsed_query.locations)
        /\ bbox_query # None => bbox_query = Envelope(bounding_box)
        /\ search_call # None =>
              search_call.query = Join(core_search_terms(parsed_query))

C27_Witness ==
    /\ Pipeline
    /\ pc = "done"
    /\ InTrace("find_dataset_ids_by_bbox")
    /\ parsed_query.locations = <<"Atlantis", "Munich">>
    /\ location_query = "Atlantis"

\* C28: the source_datasets generate_response returns has the length and
\* order of the SearchResult list it was given; entry i carries the
\* dataset_id, the relevance_score (the no-score value when the result has
\* none) and the metadata of result i, and nothing else.
C28_SourcesMirrorResults ==
    [][(pc = "synth" /\ pc' = "done") =>
          LET out == response'.source_datasets
          IN  /\ DOMAIN out = DOMAIN search_results
              /\ \A i \in DOMAIN search_results :
                    /\ DOMAIN out[i] = {"dataset_id", "relevance_score", "metadata"}
                    /\ out[i].dataset_id = search_results[i].dataset_id
                    /\ out[i].relevance_score = search_results[i].score
                    /\ out[i].metadata = search_results[i].metadata]_vars

C28_Witness ==
    /\ Synthesized
    /\ response.answer.kind = "llm"
    /\ Len(synth_args.search_results) = 2
    /\ synth_args.search_results[1].dataset_id # synth_args.search_results[2].dataset_id
    /\ synth_args.search_results[1].score # NoScore
    /\ synth_args.search_results[2].score = NoScore
    /\ response.source_datasets[2].relevance_score = NoScore
    /\ response.source_datasets[1].dataset_id = synth_args.search_results[1].dataset_id

\* The most lookups a call with retry_attempts = n may issue.
MaxLookups(n) == IF n > 0 THEN n ELSE 0

C29_State ==
    GeoCalled =>
        /\ Len(geo_outcomes) <= MaxLookups(retry_attempts)
        /\ Count(trace, "geocode") = Len(geo_outcomes)
        /\ pc = "geocode" => attempt = Len(geo_outcomes)
        /\ (retry_attempts <= 0 /\ pc # "geocode") =>
              /\ geo_outcomes = <<>>
              /\ bounding_box = None
              /\ raised = "none"
              /\ failed = "none"

\* A pass of the loop ends the call or uses up one of the lookups left.
C29_Step ==
    pc = "geocode" =>
        \/ pc' # "geocode"
        \/ /\ Len(geo_outcomes') = Len(geo_outcomes) + 1
           /\ MaxLookups(retry_attempts') - Len(geo_outcomes')
                 < MaxLookups(retry_attempts) - Len(geo_outcomes)
           /\ MaxLookups(retry_attempts') - Len(geo_outcomes') >= 0

\* C29: get_bounding_box ends after at most max(retry_attempts, 0) lookups,
\* whatever the lookups answer: every pass of its loop returns, raises or
\* spends one of a bounded number of lookups; with retry_attempts <= 0 it
\* issues no lookup and returns none.
C29_BoundedLookups ==
    /\ []C29_State
    /\ [][C29_Step]_vars
    /\ (pc = "geocode") ~> (pc # "geocode")

C29_Witness ==
    /\ mode = "geocoder"
    /\ pc = "done"
    /\ retry_attempts = -1
    /\ geo_outcomes = <<>>
    /\ bounding_box = None
    /\ raised = "none"

\* C30: the pipeline calls search_by_dataset_ids only with a non-empty
\* identifier list, so no filter with zero conditions is built on its
\* behalf.
C30_NeverEmptyIdList ==
    Pipeline =>
        /\ pc = "search_ids" => Len(dataset_ids) >= 1
        /\ InTrace("search_by_dataset_ids") => Len(dataset_ids) >= 1
        /\ (search_call # None /\ search_call.by_ids) =>
              Len(search_call.restrict) >= 1

C30_Witness ==
    /\ Pipeline
    /\ pc = "done"
    /\ InTrace("find_dataset_ids_by_bbox")
    /\ InTrace("search_by_dataset_ids")
    /\ Len(dataset_ids) = 2

\* Number of vector_store_manager.initialize invocations logged in tr.
StoreInits(tr) == Count(tr, "store_initialize")

\* Position of the first x in tr, 0 when there is none.
FirstIndex(tr, x) ==
    IF \E i \in 1..Len(tr) : tr[i] = x
    THEN CHOOSE i \in 1..Len(tr) :
            tr[i] = x /\ \A j \in 1..(i - 1) : tr[j] # x
    ELSE 0

C31_State ==
    /\ InTrace("similarity_search") =>
          /\ initialized
          /\ InTrace("store_initialize") =>
                FirstIndex(trace, "store_initialize")
                    < FirstIndex(trace, "similarity_search")
    /\ StoreInits(trace) <= 1

C31_Step ==
    /\ initialized => initialized'
    /\ initialized => StoreInits(trace') <= StoreInits(trace)
    /\ StoreInits(trace') > StoreInits(trace) =>
          /\ ~initialized
          /\ initialized' <=> (raised' = "none" \/ raised' = "OperationalError")
    /\ (~initialized /\ initialized') => StoreInits(trace') = 1
    /\ (~initialized /\ Count(trace', "similarity_search") > 0) =>
          (initialized' /\ StoreInits(trace') = 1)

\* C31: over any series of initialize and search calls the vector store's
\* initialize is invoked only while the service is uninitialised, a search
\* on an uninitialised service initialises it before it queries the store,
\* a failed initialisation leaves the service uninitialised, and an
\* initialised service never becomes uninitialised again.
C31_InitializeIdempotent == []C31_State /\ [][C31_Step]_vars

C31_Witness ==
    /\ mode = "retrieval"
    /\ pc = "done"
    /\ initialized
    /\ trace = <<"search_by_dataset_ids", "store_initialize", "similarity_search">>
    /\ Len(search_results) = 2

====
